---- MODULE Spec2Model ----
(***************************************************************************)
(* CementPlantDataUploader (src/data-uploader.py): the record normalizer,  *)
(* the replay loop, the bounded-history retention pass and the metadata    *)
(* side channel, run against a key-value store whose every operation may   *)
(* raise.  One uploader object, one thread of control; `pc` is the line    *)
(* the thread is at, `status` the scheduler state of spec section 4.3.     *)
(***************************************************************************)
EXTENDS Integers, Sequences, FiniteSets, TLC

\* ---------------------------------------------------------------- bounds
\* Longest spreadsheet loaded (rows of data_records).
MaxRecords == 3
\* Clock readings available to a run: every normalization reads the clock
\* once, so this bounds the ticks plus single uploads of one behaviour.
MaxClock == 4
\* Store operations that may raise in one behaviour.
MaxFailures == 1
\* Calls of upload_single_record with a valid index in one behaviour.
MaxSingles == 1
\* The retention cap.  The code's literal is 1000 (cleanup_history); the
\* model keeps the same comparison and slice with a cap small enough for
\* the trim to happen within MaxClock uploads.
HistoryCap == 2

\* ------------------------------------------------------------ raw records
\* A raw cell is [t, v]: t is the Python type class the normalizer tests
\* for ("nan" = pd.isna is true; "int"/"float" = isinstance(int, float);
\* "str"; "obj" = anything else, e.g. a pandas Timestamp), v its content.
Kinds == <<"nan", "int", "float", "str", "obj">>

\* Column names of the sheet, after df.columns.str.strip().
Columns == <<"Time", "Timestamp", "timestamp", "Clinker_Inlet_Temp",
             "Grate_Speed", "Uptime", "Remarks">>

\* str.lower() on the column names in use.
LowerName == [k \in {"Time", "Timestamp", "timestamp", "upload_time",
                     "Clinker_Inlet_Temp", "Grate_Speed", "Uptime", "Remarks"} |->
    CASE k = "Time" -> "time"
      [] k = "Timestamp" -> "timestamp"
      [] k = "timestamp" -> "timestamp"
      [] k = "upload_time" -> "upload_time"
      [] k = "Clinker_Inlet_Temp" -> "clinker_inlet_temp"
      [] k = "Grate_Speed" -> "grate_speed"
      [] k = "Uptime" -> "uptime"
      [] k = "Remarks" -> "remarks"]

ColumnIndex(k) == CHOOSE j \in 1..Len(Columns) : Columns[j] = k

\* Row i of the sheet: the cell kinds rotate over the columns so that every
\* column meets every kind within the first rows; contents are distinct.
RawRow(i) == [k \in {Columns[j] : j \in 1..Len(Columns)} |->
    [t |-> Kinds[((i + ColumnIndex(k)) % Len(Kinds)) + 1],
     v |-> 10 * i + ColumnIndex(k)]]

\* df.to_dict('records') of a sheet with n rows.
Sheet(n) == [i \in 1..n |-> RawRow(i)]

\* ------------------------------------------------------------- normalizer
\* clean_value with repr(value) for str(value): a text comes out quoted,
\* that is, as another text.
clean_value_repr(value) ==
    IF value.t = "nan" THEN [t |-> "float", v |-> 0]
    ELSE IF value.t \in {"int", "float"} THEN [t |-> "float", v |-> value.v]
    ELSE [t |-> "str", v |-> value.v + 1000]

\* One cell: NaN to 0.0, a number to float(value), anything else to str(value).
clean_value(value) ==
    IF value.t = "nan" THEN [t |-> "float", v |-> 0]
    ELSE IF value.t \in {"int", "float"} THEN [t |-> "float", v |-> value.v]
    ELSE [t |-> "str", v |-> value.v]

\* kept_keys without the .lower(): only the exact names are skipped.
kept_keys_case_sensitive(record) ==
    {k \in DOMAIN record : k \notin {"time", "timestamp"}}

\* The keys the loop over record.items() keeps.
kept_keys(record) ==
    {k \in DOMAIN record : LowerName[k] \notin {"time", "timestamp"}}

\* clean_data_record(record) with the clock reading t: the two injected
\* assignments come last, so they overwrite a cleaned key of the same name.
clean_data_record(record, t) ==
    [k \in kept_keys(record) \cup {"timestamp", "upload_time"} |->
        IF k = "timestamp" THEN [t |-> "str", v |-> t]
        ELSE IF k = "upload_time" THEN [t |-> "int", v |-> t]
        ELSE clean_value(record[k])]

\* -------------------------------------------------------------- retention
\* upload_time_of with an entry that lacks upload_time sorted as the newest:
\* .get('upload_time', float('inf'))
upload_time_of_missing_last(rec) ==
    IF "upload_time" \in DOMAIN rec THEN rec["upload_time"].v ELSE 1000000

\* history_data[x].get('upload_time', 0)
upload_time_of(rec) ==
    IF "upload_time" \in DOMAIN rec THEN rec["upload_time"].v ELSE 0

\* insert_sorted with the comparison turned round: a sort with reverse=True.
RECURSIVE insert_sorted_descending(_, _)
insert_sorted_descending(s, e) ==
    IF s = <<>> THEN <<e>>
    ELSE IF upload_time_of(Head(s).rec) >= upload_time_of(e.rec)
         THEN <<Head(s)>> \o insert_sorted_descending(Tail(s), e)
         ELSE <<e>> \o s

\* Insert entry e into the sequence s (sorted by upload_time) after every
\* entry whose upload_time is <= e's: what a stable sort does to equal keys.
RECURSIVE insert_sorted(_, _)
insert_sorted(s, e) ==
    IF s = <<>> THEN <<e>>
    ELSE IF upload_time_of(Head(s).rec) <= upload_time_of(e.rec)
         THEN <<Head(s)>> \o insert_sorted(Tail(s), e)
         ELSE <<e>> \o s

\* sorted(history_data.keys(), key=lambda x: history_data[x].get('upload_time', 0))
\* over the entries in the order the store enumerated them.
RECURSIVE sorted_entries(_)
sorted_entries(h) ==
    IF h = <<>> THEN <<>>
    ELSE insert_sorted(sorted_entries(SubSeq(h, 1, Len(h) - 1)), h[Len(h)])

sorted_keys(h) == [i \in 1..Len(h) |-> sorted_entries(h)[i].key]

\* keys_to_delete_of with the slice taken from the wrong end: sorted_keys[1000:].
keys_to_delete_newest(h) ==
    IF Len(h) > HistoryCap THEN SubSeq(sorted_keys(h), HistoryCap + 1, Len(h))
    ELSE <<>>

\* keys_to_delete_of with one key per pass: sorted_keys[:1].
keys_to_delete_oldest_only(h) ==
    IF Len(h) > HistoryCap THEN SubSeq(sorted_keys(h), 1, 1)
    ELSE <<>>

\* keys_to_delete = sorted_keys[:-1000], computed when len(history_data) > 1000
keys_to_delete_of(h) ==
    IF Len(h) > HistoryCap THEN SubSeq(sorted_keys(h), 1, Len(h) - HistoryCap)
    ELSE <<>>

\* delete_key as a queue pop: whatever the key, the first entry the store
\* enumerates goes.
delete_key_pops_first(h, key) == IF h = <<>> THEN <<>> ELSE Tail(h)

\* history_ref.child(key).delete()
RECURSIVE delete_key(_, _)
delete_key(h, key) ==
    IF h = <<>> THEN <<>>
    ELSE IF Head(h).key = key THEN delete_key(Tail(h), key)
    ELSE <<Head(h)>> \o delete_key(Tail(h), key)

\* ------------------------------------------------------------------ state
VARIABLES
    data_records,     \* self.data_records
    current_index,    \* self.current_index
    loop_data,        \* the loop_data argument of the streaming call
    status,           \* scheduler state: Idle, Running, Completed, Stopped, Crashed
    pc,               \* the line the thread is at
    caller,           \* who called upload_current_data: "tick", "single", "none"
    upload_index,     \* the offset of the record selected / the index argument
    cleaned_record,   \* the normalized record being uploaded, <<>> when none
    history_data,     \* cleanup_history's snapshot of the history
    keys_to_delete,   \* cleanup_history's keys still to delete
    now,              \* the wall clock (time.time() in milliseconds, scaled)
    current,          \* store: cement_plant_data/current, <<>> or <<record>>
    history,          \* store: cement_plant_data/history in enumeration order
    next_key,         \* store: the next push key (push keys sort by creation)
    metadata,         \* store: cement_plant_data/metadata, <<>> or <<record>>
    ticks,            \* completed ticks of the streaming call
    singles,          \* valid calls of upload_single_record made
    failures,         \* store operations that raised
    pass_outcome,     \* how the last retention pass ended
    last_log,         \* what the current or last entry-point call has logged, "none" so far
    trace,            \* every store operation attempted and index advance, in order
    initial_history,  \* the history the store held when the uploader was built
    peers             \* further uploader instances running on the same store

vars == <<peers, data_records, current_index, loop_data, status, pc, caller,
          upload_index, initial_history, cleaned_record, history_data, keys_to_delete, now, current, history,
          next_key, metadata, ticks, singles, failures, pass_outcome,
          last_log, trace>>

total_records == Len(data_records)

\* History entries left in the store by earlier writers: one that lacks
\* upload_time and one whose upload_time is 0.
LegacyEntry(key) ==
    [key |-> key, rec |-> [k \in {"Grate_Speed"} |-> [t |-> "float", v |-> key]]]
OldEntry(key) ==
    [key |-> key, rec |-> [k \in {"Grate_Speed", "upload_time"} |->
        IF k = "upload_time" THEN [t |-> "int", v |-> 0] ELSE [t |-> "float", v |-> key]]]

InitialHistories == { <<>>, <<LegacyEntry(1), OldEntry(2)>> }

Init ==
    /\ data_records \in {Sheet(n) : n \in 0..MaxRecords}
    /\ current_index = 0
    /\ loop_data = FALSE
    /\ status = "Idle"
    /\ pc = "idle"
    /\ caller = "none"
    /\ upload_index = 0
    /\ cleaned_record = <<>>
    /\ history_data = <<>>
    /\ keys_to_delete = <<>>
    /\ now = 1
    /\ current = <<>>
    /\ history \in InitialHistories
    /\ initial_history = history
    /\ next_key = 3
    /\ metadata = <<>>
    /\ ticks = 0
    /\ singles = 0
    /\ failures = 0
    /\ pass_outcome = "none"
    /\ last_log = "none"
    /\ trace = <<>>
    /\ peers = <<>>


\* ---------------------------------------------------------------- helpers
\* seq[i] as Python indexes a list: 0-based, a negative i counts from the end.
py_index(seq, i) == IF i < 0 THEN seq[Len(seq) + i + 1] ELSE seq[i + 1]

\* One entry of `trace`: operation op attempted, whether it returned (ok) or
\* raised, by which caller, in which tick (0 for a single upload) and for
\* the record at which offset.
Event(op, ok) ==
    [tick |-> IF caller = "tick" THEN ticks + 1 ELSE 0,
     by |-> caller, index |-> upload_index, op |-> op, ok |-> ok]

\* return_pc with the tick going straight on to the index advance.
return_pc_skips_metadata(c) == IF c = "tick" THEN "advance" ELSE "single_done"

\* Where control goes when upload_current_data returns.
return_pc(c) == IF c = "tick" THEN "metadata" ELSE "single_done"

\* at_end_of_data one record early.
at_end_one_early == current_index >= total_records - 1

\* `if self.current_index >= len(self.data_records)`
at_end_of_data == current_index >= total_records

\* valid_index without the lower bound.
valid_index_no_lower_bound(index) == index < total_records

\* `if 0 <= index < len(self.data_records)`
valid_index(index) == 0 <= index /\ index < total_records

\* A store operation may raise while the failure budget lasts.
MayFail == failures < MaxFailures

\* The variables of the uploader object and call frame that the store
\* operations of upload_current_data leave alone.
UploaderUnchanged ==
    UNCHANGED <<peers, data_records, current_index, loop_data, status, now, ticks, singles,
                last_log, upload_index, initial_history>>

\* ------------------------------------------- simulate_real_time_streaming
\* The call itself (modes 1 and 3 of main), entering `while True`.  main
\* makes one call per process; the model lets single uploads follow a
\* returned streaming call as well, never precede one.
StartStreaming(loop) ==
    /\ pc = "idle" /\ status = "Idle" /\ singles = 0
    /\ status' = "Running"
    /\ loop_data' = loop
    /\ pc' = "loop_top"
    /\ caller' = "tick"
    /\ last_log' = "streaming_started"
    /\ UNCHANGED <<peers, data_records, initial_history, upload_index, current_index,
                   cleaned_record, history_data, keys_to_delete, now, current,
                   history, next_key, metadata, ticks, singles, failures,
                   pass_outcome, trace>>

\* LoopBack without the reset of current_index.
LoopBack_NoReset ==
    /\ pc = "loop_top" /\ current_index >= total_records /\ loop_data
    /\ pc' = "select"
    /\ UNCHANGED <<peers, data_records, initial_history, upload_index, current_index,
                   loop_data, status, caller, cleaned_record, history_data,
                   keys_to_delete, now, current, history, next_key, metadata,
                   ticks, singles, failures, pass_outcome, last_log, trace>>

\* End of data with loop_data: reset the index and go on.
LoopBack ==
    /\ pc = "loop_top" /\ at_end_of_data /\ loop_data
    /\ current_index' = 0
    /\ pc' = "select"
    /\ UNCHANGED <<peers, data_records, initial_history, upload_index, loop_data, status, caller, cleaned_record,
                   history_data, keys_to_delete, now, current, history, next_key,
                   metadata, ticks, singles, failures, pass_outcome, last_log, trace>>

\* End of data without loop_data: break out of the loop and return.
FinishPass ==
    /\ pc = "loop_top" /\ at_end_of_data /\ ~loop_data
    /\ status' = "Completed"
    /\ pc' = "idle"
    /\ caller' = "none"
    /\ last_log' = "finished"
    /\ UNCHANGED <<peers, data_records, initial_history, upload_index, current_index, loop_data, cleaned_record,
                   history_data, keys_to_delete, now, current, history, next_key,
                   metadata, ticks, singles, failures, pass_outcome, trace>>

\* record = self.data_records[self.current_index]; clean_data_record(record)
SelectRecord ==
    /\ \/ pc = "loop_top" /\ ~at_end_of_data
       \/ pc = "select"
    /\ current_index < total_records
    /\ now <= MaxClock
    /\ upload_index' = current_index
    /\ cleaned_record' = clean_data_record(py_index(data_records, current_index), now)
    /\ now' = now + 1
    /\ pc' = "set_current"
    /\ UNCHANGED <<peers, data_records, initial_history, current_index, loop_data, status, caller,
                   history_data, keys_to_delete, current, history, next_key,
                   metadata, ticks, singles, failures, pass_outcome, last_log, trace>>

\* SelectCrash with the IndexError caught inside the loop: the iteration is
\* skipped and the loop sleeps and goes round again.
SelectCrash_SkipsIteration ==
    /\ pc = "select"
    /\ current_index >= total_records
    /\ pc' = "sleep"
    /\ last_log' = "streaming_error"
    /\ UNCHANGED <<peers, data_records, initial_history, upload_index, current_index, loop_data,
                   status, caller, cleaned_record, history_data, keys_to_delete, now,
                   current, history, next_key, metadata, ticks, singles, failures,
                   pass_outcome, trace>>

\* The same line on an empty sequence after the reset: IndexError, logged
\* by `except Exception` and re-raised out of the call.
SelectCrash ==
    /\ pc = "select"
    /\ current_index >= total_records
    /\ status' = "Crashed"
    /\ pc' = "idle"
    /\ caller' = "none"
    /\ last_log' = "streaming_error"
    /\ UNCHANGED <<peers, data_records, initial_history, upload_index, current_index, loop_data, cleaned_record,
                   history_data, keys_to_delete, now, current, history, next_key,
                   metadata, ticks, singles, failures, pass_outcome, trace>>

\* ----------------------------------------------------- upload_current_data
\* db.reference('cement_plant_data/current').set(data_record)
SetCurrent ==
    /\ pc = "set_current"
    /\ current' = <<cleaned_record>>
    /\ trace' = Append(trace, Event("set_current", TRUE))
    /\ pc' = "push"
    /\ UploaderUnchanged
    /\ UNCHANGED <<caller, cleaned_record, history_data, keys_to_delete, history,
                   next_key, metadata, failures, pass_outcome>>

\* SetCurrentFails without the try/except: the exception leaves the call.
SetCurrentFails_Propagates ==
    /\ pc = "set_current" /\ failures < MaxFailures
    /\ failures' = failures + 1
    /\ trace' = Append(trace, Event("set_current", FALSE))
    /\ pc' = "idle"
    /\ caller' = "none"
    /\ status' = IF caller = "tick" THEN "Crashed" ELSE status
    /\ UNCHANGED <<peers, data_records, current_index, loop_data, now, ticks, singles,
                   last_log, upload_index, initial_history, cleaned_record,
                   history_data, keys_to_delete, current, history, next_key,
                   metadata, pass_outcome>>

\* SetCurrentFails with the try/except around the set alone: the method goes
\* on to the history push.
SetCurrentFails_GoesOnToPush ==
    /\ pc = "set_current" /\ failures < MaxFailures
    /\ failures' = failures + 1
    /\ trace' = Append(trace, Event("set_current", FALSE))
    /\ pc' = "push"
    /\ UNCHANGED <<peers, data_records, current_index, loop_data, status, now, ticks,
                   singles, last_log, upload_index, initial_history, caller,
                   cleaned_record, history_data, keys_to_delete, current, history,
                   next_key, metadata, pass_outcome>>

\* The set raises: `except Exception` logs it and the method returns.
SetCurrentFails ==
    /\ pc = "set_current" /\ MayFail
    /\ failures' = failures + 1
    /\ trace' = Append(trace, Event("set_current", FALSE))
    /\ pc' = return_pc(caller)
    /\ UploaderUnchanged
    /\ UNCHANGED <<caller, cleaned_record, history_data, keys_to_delete, current,
                   history, next_key, metadata, pass_outcome>>

\* db.reference('cement_plant_data/history').push(data_record)
PushHistory ==
    /\ pc = "push"
    /\ history' = Append(history, [key |-> next_key, rec |-> cleaned_record])
    /\ next_key' = next_key + 1
    /\ trace' = Append(trace, Event("push", TRUE))
    /\ pc' = "cleanup_get"
    /\ UploaderUnchanged
    /\ UNCHANGED <<caller, cleaned_record, history_data, keys_to_delete, current,
                   metadata, failures, pass_outcome>>

PushHistoryFails ==
    /\ pc = "push" /\ MayFail
    /\ failures' = failures + 1
    /\ trace' = Append(trace, Event("push", FALSE))
    /\ pc' = return_pc(caller)
    /\ UploaderUnchanged
    /\ UNCHANGED <<caller, cleaned_record, history_data, keys_to_delete, current,
                   history, next_key, metadata, pass_outcome>>

\* --------------------------------------------------------- cleanup_history
\* history_data = history_ref.get(), the size test, the sort and the slice.
CleanupGet ==
    /\ pc = "cleanup_get"
    /\ history_data' = history
    /\ keys_to_delete' = keys_to_delete_of(history)
    /\ trace' = Append(trace, Event("get", TRUE))
    /\ IF Len(history) > HistoryCap
       THEN pc' = "cleanup_delete" /\ pass_outcome' = "deleting"
       ELSE pc' = "uploaded" /\ pass_outcome' = "noop"
    /\ UploaderUnchanged
    /\ UNCHANGED <<caller, cleaned_record, current, history, next_key, metadata, failures>>

\* The get raises: cleanup_history's own `except Exception` logs a warning.
CleanupGetFails ==
    /\ pc = "cleanup_get" /\ MayFail
    /\ failures' = failures + 1
    /\ trace' = Append(trace, Event("get", FALSE))
    /\ pc' = "uploaded"
    /\ pass_outcome' = "read_failed"
    /\ UploaderUnchanged
    /\ UNCHANGED <<caller, cleaned_record, history_data, keys_to_delete, current,
                   history, next_key, metadata>>

\* One iteration of `for key in keys_to_delete: history_ref.child(key).delete()`
CleanupDelete ==
    /\ pc = "cleanup_delete" /\ keys_to_delete # <<>>
    /\ history' = delete_key(history, Head(keys_to_delete))
    /\ keys_to_delete' = Tail(keys_to_delete)
    /\ trace' = Append(trace, Event("delete", TRUE))
    /\ UploaderUnchanged
    /\ UNCHANGED <<pc, caller, cleaned_record, history_data, current, next_key,
                   metadata, failures, pass_outcome>>

\* A delete raises: the exception leaves the for loop, the remaining keys
\* are not deleted, the warning is logged.
CleanupDeleteFails ==
    /\ pc = "cleanup_delete" /\ keys_to_delete # <<>> /\ MayFail
    /\ failures' = failures + 1
    /\ trace' = Append(trace, Event("delete", FALSE))
    /\ pc' = "uploaded"
    /\ pass_outcome' = "delete_failed"
    /\ UploaderUnchanged
    /\ UNCHANGED <<caller, cleaned_record, history_data, keys_to_delete, current,
                   history, next_key, metadata>>

\* The for loop is exhausted: "Cleaned n old records" is logged.
CleanupDone ==
    /\ pc = "cleanup_delete" /\ keys_to_delete = <<>>
    /\ pc' = "uploaded"
    /\ pass_outcome' = "trimmed"
    /\ UploaderUnchanged
    /\ UNCHANGED <<caller, cleaned_record, history_data, keys_to_delete, current,
                   history, next_key, metadata, failures, trace>>

\* cleanup_history has returned: "Uploaded data point" is logged and
\* upload_current_data returns to its caller.
UploadReturn ==
    /\ pc = "uploaded"
    /\ pc' = return_pc(caller)
    /\ UploaderUnchanged
    /\ UNCHANGED <<caller, cleaned_record, history_data, keys_to_delete, current,
                   history, next_key, metadata, failures, pass_outcome, trace>>


\* --------------------------------------------------------- update_metadata
\* metadata_record announcing the end of a non-looping run with its last tick.
metadata_record_reports_stop ==
    [last_update |-> now,
     current_index |-> current_index,
     total_records |-> total_records,
     update_interval_seconds |-> 5,
     status |-> IF ~loop_data /\ current_index + 1 >= total_records
                THEN "stopped" ELSE "active"]

\* metadata_record built after the index has advanced.
metadata_record_after_advance ==
    [last_update |-> now,
     current_index |-> current_index + 1,
     total_records |-> total_records,
     update_interval_seconds |-> 5,
     status |-> "active"]

metadata_record ==
    [last_update |-> now,
     current_index |-> current_index,
     total_records |-> total_records,
     update_interval_seconds |-> 5,
     status |-> "active"]

\* db.reference('cement_plant_data/metadata').set(metadata)
UpdateMetadata ==
    /\ pc = "metadata"
    /\ metadata' = <<metadata_record>>
    /\ trace' = Append(trace, Event("set_metadata", TRUE))
    /\ pc' = "advance"
    /\ UploaderUnchanged
    /\ UNCHANGED <<caller, cleaned_record, history_data, keys_to_delete, current,
                   history, next_key, failures, pass_outcome>>

\* The set raises: update_metadata's `except Exception` logs a warning.
UpdateMetadataFails ==
    /\ pc = "metadata" /\ MayFail
    /\ failures' = failures + 1
    /\ trace' = Append(trace, Event("set_metadata", FALSE))
    /\ pc' = "advance"
    /\ UploaderUnchanged
    /\ UNCHANGED <<caller, cleaned_record, history_data, keys_to_delete, current,
                   history, next_key, metadata, pass_outcome>>

\* ------------------------------------------------ the rest of the loop body
\* Advance by two: self.current_index += 2.
Advance_ByTwo ==
    /\ pc = "advance"
    /\ current_index' = current_index + 2
    /\ ticks' = ticks + 1
    /\ trace' = Append(trace, Event("advance", TRUE))
    /\ pc' = "sleep"
    /\ UNCHANGED <<peers, data_records, initial_history, upload_index, loop_data, status, caller, cleaned_record,
                   history_data, keys_to_delete, now, current, history, next_key,
                   metadata, singles, failures, pass_outcome, last_log>>

\* self.current_index += 1
Advance ==
    /\ pc = "advance"
    /\ current_index' = current_index + 1
    /\ ticks' = ticks + 1
    /\ trace' = Append(trace, Event("advance", TRUE))
    /\ pc' = "sleep"
    /\ UNCHANGED <<peers, data_records, initial_history, upload_index, loop_data, status, caller, cleaned_record,
                   history_data, keys_to_delete, now, current, history, next_key,
                   metadata, singles, failures, pass_outcome, last_log>>

\* time.sleep(5), then the next iteration of `while True`
Sleep ==
    /\ pc = "sleep"
    /\ pc' = "loop_top"
    /\ UNCHANGED <<peers, data_records, initial_history, upload_index, current_index, loop_data, status, caller,
                   cleaned_record, history_data, keys_to_delete, now, current,
                   history, next_key, metadata, ticks, singles, failures,
                   pass_outcome, last_log, trace>>

\* KeyboardInterrupt.  Python raises it in the main thread between any two
\* bytecodes, and it is no subclass of Exception: the `except Exception`
\* handlers of upload_current_data, cleanup_history and update_metadata let
\* it through, and `except KeyboardInterrupt` of the streaming call logs
\* "Streaming stopped by user" and returns.
Interrupt ==
    /\ status = "Running" /\ pc # "idle"
    /\ status' = "Stopped"
    /\ pc' = "idle"
    /\ caller' = "none"
    /\ last_log' = "stopped_by_user"
    \* the frames of the interrupted calls are gone, and their locals with them
    /\ upload_index' = 0
    /\ cleaned_record' = <<>>
    /\ history_data' = <<>>
    /\ keys_to_delete' = <<>>
    /\ UNCHANGED <<peers, data_records, initial_history, current_index, loop_data, now,
                   current, history, next_key, metadata, ticks, singles, failures,
                   pass_outcome, trace>>

\* ---------------------------------------------------- upload_single_record
\* UploadSingle that also moves the scheduler's index to the uploaded offset.
UploadSingle_MovesIndex(index) ==
    /\ pc = "idle" /\ status # "Running"
    /\ 0 <= index /\ index < total_records
    /\ singles < MaxSingles
    /\ now <= MaxClock
    /\ singles' = singles + 1
    /\ upload_index' = index
    /\ current_index' = index
    /\ cleaned_record' = clean_data_record(py_index(data_records, index), now)
    /\ now' = now + 1
    /\ caller' = "single"
    /\ pc' = "set_current"
    /\ last_log' = "none"
    /\ UNCHANGED <<peers, data_records, initial_history, loop_data, status,
                   history_data, keys_to_delete, current, history, next_key,
                   metadata, ticks, failures, pass_outcome, trace>>

\* A valid index: the record is normalized and handed to upload_current_data.
UploadSingle(index) ==
    /\ pc = "idle" /\ status # "Running"
    /\ valid_index(index)
    /\ -total_records <= index    \* else data_records[index] raises IndexError
    /\ singles < MaxSingles
    /\ now <= MaxClock
    /\ singles' = singles + 1
    /\ upload_index' = index
    /\ cleaned_record' = clean_data_record(py_index(data_records, index), now)
    /\ now' = now + 1
    /\ caller' = "single"
    /\ pc' = "set_current"
    /\ last_log' = "none"
    /\ UNCHANGED <<peers, data_records, initial_history, current_index, loop_data, status,
                   history_data, keys_to_delete, current, history, next_key,
                   metadata, ticks, failures, pass_outcome, trace>>

\* upload_current_data has returned: "Single record uploaded" is logged.
SingleReturn ==
    /\ pc = "single_done"
    /\ pc' = "idle"
    /\ caller' = "none"
    /\ last_log' = "single_uploaded"
    /\ UNCHANGED <<peers, data_records, initial_history, upload_index, current_index, loop_data, status, cleaned_record,
                   history_data, keys_to_delete, now, current, history, next_key,
                   metadata, ticks, singles, failures, pass_outcome, trace>>

\* The else branch: "Invalid index" is logged as an error.
UploadSingleRejected(index) ==
    /\ pc = "idle" /\ status # "Running"
    /\ ~valid_index(index)
    /\ upload_index' = index
    /\ last_log' = "invalid_index"
    /\ UNCHANGED <<peers, data_records, initial_history, current_index, loop_data, status, pc, caller,
                   cleaned_record, history_data, keys_to_delete, now, current,
                   history, next_key, metadata, ticks, singles, failures,
                   pass_outcome, trace>>

\* The indices an operator may type: the first two offsets of the range, one
\* below it and the first one above it.
Indices == {-1, 0, 1, total_records}

Next ==
    \/ \E loop \in BOOLEAN : StartStreaming(loop)
    \/ LoopBack
    \/ FinishPass
    \/ SelectRecord
    \/ SelectCrash
    \/ SetCurrent
    \/ SetCurrentFails
    \/ PushHistory
    \/ PushHistoryFails
    \/ CleanupGet
    \/ CleanupGetFails
    \/ CleanupDelete
    \/ CleanupDeleteFails
    \/ CleanupDone
    \/ UploadReturn
    \/ UpdateMetadata
    \/ UpdateMetadataFails
    \/ Advance
    \/ Sleep
    \/ Interrupt
    \/ \E index \in Indices : UploadSingle(index)
    \/ SingleReturn
    \/ \E index \in Indices : UploadSingleRejected(index)

Spec == Init /\ [][Next]_vars

\* ------------------------------------- two uploaders on the same store
\* Two processes run `python data-uploader.py` in mode 1 (continuous
\* streaming, loop_data = True) against the same database URL.  Each has its
\* own CementPlantDataUploader (peers[i]); current, history and metadata are
\* the shared store, data_records the sheet both loaded, now the wall clock.
\* No store call takes a lock, so the store calls of the two loops interleave
\* in any order.  Store failures and interrupts are left to Spec.
Instances == {1, 2}

\* History a shared store may hold beforehand, upload_time values all distinct.
InitialHistoriesTwo == { <<>>, <<OldEntry(2)>> }

\* The variables of the single uploader of Spec, unused here.
uploaderVars == <<current_index, loop_data, status, pc, caller, upload_index,
                  cleaned_record, history_data, keys_to_delete, ticks, singles,
                  failures, pass_outcome, last_log, trace>>

\* __init__ of each instance
NewPeer ==
    [pc |-> "loop_top", current_index |-> 0, cleaned_record |-> <<>>,
     history_data |-> <<>>, keys_to_delete |-> <<>>]

InitTwo ==
    /\ data_records \in {Sheet(n) : n \in 1..MaxRecords}
    /\ peers = [i \in Instances |-> NewPeer]
    /\ current_index = 0
    /\ loop_data = TRUE
    /\ status = "Idle"
    /\ pc = "idle"
    /\ caller = "none"
    /\ upload_index = 0
    /\ cleaned_record = <<>>
    /\ history_data = <<>>
    /\ keys_to_delete = <<>>
    /\ now = 1
    /\ current = <<>>
    /\ history \in InitialHistoriesTwo
    /\ initial_history = history
    /\ next_key = 3
    /\ metadata = <<>>
    /\ ticks = 0
    /\ singles = 0
    /\ failures = 0
    /\ pass_outcome = "none"
    /\ last_log = "none"
    /\ trace = <<>>

\* The end-of-data test with its reset, the selection and clean_data_record.
PeerSelectRecord(i) ==
    LET p == peers[i]
        index == IF p.current_index >= total_records THEN 0 ELSE p.current_index
    IN  /\ p.pc = "loop_top"
        /\ now <= MaxClock
        /\ peers' = [peers EXCEPT ![i] =
              [p EXCEPT !.pc = "set_current",
                        !.current_index = index,
                        !.cleaned_record =
                            clean_data_record(py_index(data_records, index), now)]]
        /\ now' = now + 1
        /\ UNCHANGED <<data_records, initial_history, current, history, next_key,
                       metadata, uploaderVars>>

\* db.reference('cement_plant_data/current').set(data_record)
PeerSetCurrent(i) ==
    /\ peers[i].pc = "set_current"
    /\ current' = <<peers[i].cleaned_record>>
    /\ peers' = [peers EXCEPT ![i].pc = "push"]
    /\ UNCHANGED <<data_records, initial_history, now, history, next_key, metadata,
                   uploaderVars>>

\* db.reference('cement_plant_data/history').push(data_record)
PeerPushHistory(i) ==
    /\ peers[i].pc = "push"
    /\ history' = Append(history, [key |-> next_key, rec |-> peers[i].cleaned_record])
    /\ next_key' = next_key + 1
    /\ peers' = [peers EXCEPT ![i].pc = "cleanup_get"]
    /\ UNCHANGED <<data_records, initial_history, now, current, metadata, uploaderVars>>

\* history_data = history_ref.get(), the size test, the sort and the slice.
PeerCleanupGet(i) ==
    /\ peers[i].pc = "cleanup_get"
    /\ peers' = [peers EXCEPT ![i] =
          [@ EXCEPT !.history_data = history,
                    !.keys_to_delete = keys_to_delete_of(history),
                    !.pc = IF Len(history) > HistoryCap
                           THEN "cleanup_delete" ELSE "metadata"]]
    /\ UNCHANGED <<data_records, initial_history, now, current, history, next_key,
                   metadata, uploaderVars>>

\* One iteration of the delete loop; deleting a child that is no longer
\* there succeeds and changes nothing.
PeerCleanupDelete(i) ==
    /\ peers[i].pc = "cleanup_delete" /\ peers[i].keys_to_delete # <<>>
    /\ history' = delete_key(history, Head(peers[i].keys_to_delete))
    /\ peers' = [peers EXCEPT ![i].keys_to_delete = Tail(@)]
    /\ UNCHANGED <<data_records, initial_history, now, current, next_key, metadata,
                   uploaderVars>>

\* The delete loop is through; upload_current_data returns.
PeerCleanupDone(i) ==
    /\ peers[i].pc = "cleanup_delete" /\ peers[i].keys_to_delete = <<>>
    /\ peers' = [peers EXCEPT ![i].pc = "metadata"]
    /\ UNCHANGED <<data_records, initial_history, now, current, history, next_key,
                   metadata, uploaderVars>>

\* update_metadata, self.current_index += 1 and the sleep.
PeerFinishTick(i) ==
    /\ peers[i].pc = "metadata"
    /\ metadata' = <<[last_update |-> now,
                      current_index |-> peers[i].current_index,
                      total_records |-> total_records,
                      update_interval_seconds |-> 5,
                      status |-> "active"]>>
    /\ peers' = [peers EXCEPT ![i] =
          [@ EXCEPT !.current_index = @ + 1, !.pc = "loop_top"]]
    /\ UNCHANGED <<data_records, initial_history, now, current, history, next_key,
                   uploaderVars>>

NextTwo ==
    \E i \in Instances :
        \/ PeerSelectRecord(i)
        \/ PeerSetCurrent(i)
        \/ PeerPushHistory(i)
        \/ PeerCleanupGet(i)
        \/ PeerCleanupDelete(i)
        \/ PeerCleanupDone(i)
        \/ PeerFinishTick(i)

SpecTwo == InitTwo /\ [][NextTwo]_vars


\* ------------------------------------------------------ reading the trace
\* The events of `tr` made by the streaming call's ticks.
TickEvents(tr) == SelectSeq(tr, LAMBDA e : e.by = "tick")

\* The offsets the ticks tried to publish, in order.
TickUploads(tr) ==
    LET s == SelectSeq(tr, LAMBDA e : e.by = "tick" /\ e.op = "set_current")
    IN  [i \in 1..Len(s) |-> s[i].index]

\* Between two ticks: the last tick has advanced, the next has selected nothing.
AtTickBoundary == status = "Running" /\ pc \in {"sleep", "loop_top"}

\* Inside a tick: a record is selected and the index has not advanced yet.
InsideTick ==
    /\ status = "Running"
    /\ pc \in {"set_current", "push", "cleanup_get", "cleanup_delete",
               "uploaded", "metadata", "advance"}

Min(a, b) == IF a < b THEN a ELSE b

\* ------------------------------------------------------------------- C1
\* Position j of snapshot h outranks position i: a larger upload_time, or
\* the same upload_time and later in the store's enumeration.
Outranks(h, j, i) ==
    \/ upload_time_of(h[j].rec) > upload_time_of(h[i].rec)
    \/ upload_time_of(h[j].rec) = upload_time_of(h[i].rec) /\ j > i

\* The n entries of h with the largest upload_time, ties by enumeration.
Newest(h, n) ==
    {h[i] : i \in {i \in 1..Len(h) :
        Cardinality({j \in 1..Len(h) : Outranks(h, j, i)}) < n}}

Entries(h) == {h[i] : i \in 1..Len(h)}

\* C1: after every retention pass that ran to its end (no read or delete
\* raised), the history holds at most HistoryCap entries, and they are
\* exactly the HistoryCap entries of the snapshot the pass read that have the
\* largest upload_time (all of them when it held fewer), ties going to the
\* entries the store enumerates later.
C1_RetentionInvariant ==
    (pc = "uploaded" /\ pass_outcome \in {"noop", "trimmed"}) =>
        /\ Len(history) <= HistoryCap
        /\ Len(history) = Min(Len(history_data), HistoryCap)
        /\ Entries(history) = Newest(history_data, HistoryCap)

\* A pass has trimmed a snapshot in which two entries tied on upload_time:
\* the earlier-enumerated one is gone, the later one survives.
C1_Witness ==
    /\ pc = "uploaded" /\ pass_outcome = "trimmed"
    /\ Len(history_data) > HistoryCap
    /\ \E i, j \in 1..Len(history_data) :
        /\ i < j
        /\ upload_time_of(history_data[i].rec) = upload_time_of(history_data[j].rec)
        /\ history_data[i] \notin Entries(history)
        /\ history_data[j] \in Entries(history)

\* ------------------------------------------------------------------- C2
\* C2 as stated: between ticks of a looping run, after t completed ticks
\* current_index is t mod N (0 again after every k*N ticks).
C2_AsStated ==
    (AtTickBoundary /\ loop_data /\ total_records >= 1) =>
        current_index = ticks % total_records

\* C2 amended: in a looping run over N >= 1 records, after t >= 1 completed
\* ticks current_index is ((t-1) mod N) + 1 -- N, not 0, after every k*N
\* ticks -- until the next iteration's end-of-data test resets it; from that
\* test to the advance of tick t+1 it is t mod N, the offset tick t+1 uploads.
C2_LoopingIndex ==
    (status = "Running" /\ loop_data /\ total_records >= 1) =>
        /\ AtTickBoundary =>
             current_index = (IF ticks = 0 THEN 0
                              ELSE ((ticks - 1) % total_records) + 1)
        /\ (InsideTick \/ pc = "select") =>
             current_index = ticks % total_records

\* A looping run has wrapped: one more tick than there are records is done.
C2_Witness ==
    /\ AtTickBoundary /\ loop_data
    /\ total_records >= 2
    /\ ticks = total_records + 1
    /\ current_index = 1

\* ------------------------------------------------------------------- C3
\* C3: a non-looping run that reaches Completed has made exactly N ticks,
\* which tried to publish offsets 0..N-1 in that order, each once; and from
\* Completed on the scheduler stays Completed, makes no tick, and the store
\* is written by nothing but a later single upload.
C3_NonLooping ==
    [][ /\ (status' = "Completed") =>
            /\ ~loop_data'
            /\ ticks' = total_records'
            /\ TickUploads(trace') = [i \in 1..total_records' |-> i - 1]
        /\ (status = "Completed") =>
            /\ status' = "Completed"
            /\ ticks' = ticks /\ current_index' = current_index
            /\ TickEvents(trace') = TickEvents(trace)
            /\ (caller # "single" => UNCHANGED <<current, history, metadata>>)
      ]_vars

\* A pass over the longest sheet has completed.
C3_Witness ==
    /\ status = "Completed" /\ total_records = MaxRecords /\ ticks = MaxRecords
    /\ Len(history) >= 1

\* ------------------------------------------------------------------- C4
\* The record tick u of an undisturbed looping run uploads: the
\* normalization of sequence[(u-1) mod N] at the u-th clock reading.
ExpectedUpload(u) ==
    clean_data_record(data_records[((u - 1) % total_records) + 1], u)

Recs(h) == [i \in 1..Len(h) |-> h[i].rec]

\* C4: in a looping run on an empty history with no store failure and no
\* single upload, tick t uploads sequence[(t-1) mod N], and between ticks,
\* after t ticks, the history is the last min(t, HistoryCap) uploaded
\* records in upload order and the current snapshot is the t-th.
C4_HistoryContents ==
    (status = "Running" /\ loop_data /\ failures = 0 /\ singles = 0
        /\ initial_history = <<>> /\ total_records >= 1) =>
        /\ InsideTick => cleaned_record = ExpectedUpload(ticks + 1)
        /\ AtTickBoundary =>
            /\ Recs(history) =
                 [i \in 1..Min(ticks, HistoryCap) |->
                     ExpectedUpload(ticks - Min(ticks, HistoryCap) + i)]
            /\ ticks >= 1 => current = <<ExpectedUpload(ticks)>>

\* The example of the spec at its last step: three records, tick 4 has
\* wrapped to the first record and the history is [C, A].
C4_Witness ==
    /\ AtTickBoundary /\ loop_data /\ failures = 0 /\ singles = 0
    /\ initial_history = <<>>
    /\ total_records = 3 /\ ticks = 4
    /\ Recs(history) = <<ExpectedUpload(3), ExpectedUpload(4)>>


\* ------------------------------------------------------------------- C5
\* C5: a single-record upload with a valid index never changes
\* current_index, the scheduler state or the published metadata, whatever
\* they were, and when its publish returns the current snapshot is the
\* normalization of the record at the requested offset.
C5_SingleUploadFrame ==
    [][ /\ (caller = "single" \/ caller' = "single") =>
            /\ current_index' = current_index
            /\ metadata' = metadata
            /\ status' = status /\ ticks' = ticks /\ loop_data' = loop_data
        /\ (caller = "single" /\ pc = "set_current" /\ pc' = "push") =>
            /\ valid_index(upload_index)
            /\ current' = <<clean_data_record(data_records[upload_index + 1], now - 1)>>
      ]_vars

\* The spec's case after an interrupted run: index 1 of three records is
\* published while current_index is 2 and metadata of the run is in the store.
C5_Witness ==
    /\ caller = "single" /\ pc = "push"
    /\ total_records = 3 /\ upload_index = 1
    /\ current_index = 2 /\ status = "Stopped" /\ metadata # <<>>
    /\ current = <<clean_data_record(data_records[2], now - 1)>>

\* ------------------------------------------------------------------- C6
\* C6: a single-record upload whose index is outside [0, total_records) is
\* never let through to upload_current_data; the call logs the invalid-index
\* error and returns with the current snapshot, the history, the metadata,
\* current_index and the scheduler state as they were.
C6_InvalidIndexRejected ==
    [][ /\ (pc = "idle" /\ caller' = "single") =>
            (0 <= upload_index' /\ upload_index' < total_records)
        /\ (pc = "idle" /\ pc' = "idle") =>
            /\ ~(0 <= upload_index' /\ upload_index' < total_records)
            /\ last_log' = "invalid_index"
            /\ UNCHANGED <<current, history, next_key, metadata, current_index,
                           status, ticks, singles, trace>>
      ]_vars

\* A negative index has been rejected on a store that holds a snapshot.
C6_Witness ==
    /\ pc = "idle" /\ last_log = "invalid_index"
    /\ upload_index = -1 /\ total_records >= 1
    /\ current # <<>> /\ history # <<>>

\* ------------------------------------------------------------------- C7
\* A store operation of the tick in progress has raised.
TickFailedNow ==
    \E i \in 1..Len(trace) :
        trace[i].by = "tick" /\ trace[i].tick = ticks + 1 /\ ~trace[i].ok

\* C7: a store operation that raises inside a tick leaves the scheduler
\* Running with current_index untouched and control at a later step of the
\* same tick; from there the tick can always go on, nothing but the operator's
\* interrupt ends the run, and the tick's advance adds exactly one to
\* current_index and leads to the sleep before the next tick.
C7_FailureIsolation ==
    /\ []((InsideTick /\ TickFailedNow) =>
            ENABLED (UploadReturn \/ UpdateMetadata \/ Advance))
    /\ []((status = "Running" /\ pc = "sleep") => ENABLED Sleep)
    /\ [][ /\ (caller = "tick" /\ failures' > failures) =>
               /\ status' = "Running"
               /\ current_index' = current_index
               /\ pc' \in {"uploaded", "metadata", "advance"}
           /\ (InsideTick /\ TickFailedNow) => status' \in {"Running", "Stopped"}
           /\ (InsideTick /\ TickFailedNow /\ pc = "advance" /\ status' = "Running") =>
               /\ current_index' = current_index + 1
               /\ ticks' = ticks + 1
               /\ pc' = "sleep"
         ]_vars

\* The tick after a tick whose publish of the current snapshot raised: the
\* index has advanced by one and the next record is being uploaded.
C7_Witness ==
    /\ InsideTick /\ pc = "push"
    /\ ticks = 1 /\ current_index = 1
    /\ \E i \in 1..Len(trace) :
        trace[i].tick = 1 /\ trace[i].op = "set_current" /\ ~trace[i].ok

\* ------------------------------------------------------------------- C8
Rank(op) ==
    CASE op = "set_current" -> 1
      [] op = "push" -> 2
      [] op = "get" -> 3
      [] op = "delete" -> 3
      [] op = "set_metadata" -> 4
      [] op = "advance" -> 5

\* Event b may come right after event a in the run of ticks.
InOrder(a, b) ==
    IF a.tick = b.tick
    THEN /\ a.op # "advance"
         /\ \/ Rank(a.op) < Rank(b.op)
            \/ a.op \in {"get", "delete"} /\ b.op = "delete"
         /\ b.op = "advance" => a.op = "set_metadata"
    ELSE /\ b.tick = a.tick + 1
         /\ a.op = "advance"
         /\ b.op = "set_current"

\* C8: the store operations of a tick come in the order publish current,
\* append history, retention read and deletes, publish metadata, and the
\* index advances right after the metadata publish; the first operation of
\* tick t+1 comes only after the advance of tick t.
C8_TickOrder ==
    LET ev == TickEvents(trace) IN
        /\ Len(ev) >= 1 => (ev[1].tick = 1 /\ ev[1].op = "set_current")
        /\ \A i \in 1..(Len(ev) - 1) : InOrder(ev[i], ev[i + 1])

\* A tick that went through every kind of operation, deletes included, is
\* followed by the first operation of the next tick.
C8_Witness ==
    LET ev == TickEvents(trace) IN
        /\ Len(ev) >= 6
        /\ \E i \in 1..Len(ev) : ev[i].op = "delete" /\ ev[i].tick = 1
        /\ \E i \in 1..Len(ev) : ev[i].op = "set_metadata" /\ ev[i].tick = 1
        /\ ev[Len(ev)].tick = 2 /\ ev[Len(ev)].op = "set_current"

\* ------------------------------------------------------------------- C9
\* C9: a run stopped by the operator has no tick cut short: every tick that
\* published its current snapshot went on to its history append, its metadata
\* publish and its advance (the last thing a stopped run did is an advance).
C9_CooperativeCancellation ==
    LET ev == TickEvents(trace) IN
        status = "Stopped" =>
            \A i \in 1..Len(ev) :
                (ev[i].op = "set_current" /\ ev[i].ok) =>
                    /\ \E j \in 1..Len(ev) : ev[j].tick = ev[i].tick /\ ev[j].op = "push"
                    /\ \E j \in 1..Len(ev) : ev[j].tick = ev[i].tick /\ ev[j].op = "set_metadata"
                    /\ \E j \in 1..Len(ev) : ev[j].tick = ev[i].tick /\ ev[j].op = "advance"

\* ------------------------------------------------------------------ C10
\* upload_current_data is running: cleaned_record is the normalization, at
\* clock reading now - 1, of the raw record at offset upload_index.
Normalized ==
    pc \in {"set_current", "push", "cleanup_get", "cleanup_delete", "uploaded"}

NoMissingValue(out) == \A k \in DOMAIN out : out[k].t \in {"float", "str", "int"}

\* C10 as stated: no missing value, timestamp and upload_time present, and
\* no key of the output lowercases to time or timestamp.
C10_AsStated ==
    Normalized =>
        /\ NoMissingValue(cleaned_record)
        /\ {"timestamp", "upload_time"} \subseteq DOMAIN cleaned_record
        /\ \A k \in DOMAIN cleaned_record : LowerName[k] \notin {"time", "timestamp"}

\* C10 amended: the output holds no missing value (a missing raw value
\* becomes the float 0), holds timestamp and upload_time, and the only key of
\* it that lowercases to time or timestamp is the injected `timestamp`, which
\* holds the clock reading and never a raw value; every other raw field is
\* carried over under its own name.
C10_Normalizer ==
    Normalized =>
        LET raw == data_records[upload_index + 1]
            out == cleaned_record
        IN  /\ NoMissingValue(out)
            /\ \A k \in DOMAIN raw \ {"timestamp", "upload_time"} :
                 (k \in DOMAIN out /\ raw[k].t = "nan") => out[k] = [t |-> "float", v |-> 0]
            /\ {"timestamp", "upload_time"} \subseteq DOMAIN out
            /\ out["timestamp"] = [t |-> "str", v |-> now - 1]
            /\ out["upload_time"] = [t |-> "int", v |-> now - 1]
            /\ \A k \in DOMAIN out :
                 LowerName[k] \in {"time", "timestamp"} => k = "timestamp"
            /\ \A k \in DOMAIN raw :
                 LowerName[k] \notin {"time", "timestamp"} => k \in DOMAIN out

\* A record with a missing value and with raw Time, Timestamp and timestamp
\* columns has been normalized: the missing value is 0.0, the first two
\* columns are gone and timestamp holds the clock reading.
C10_Witness ==
    /\ Normalized
    /\ LET raw == data_records[upload_index + 1] IN
        /\ {"Time", "Timestamp", "timestamp"} \subseteq DOMAIN raw
        /\ raw["timestamp"] # cleaned_record["timestamp"]
        /\ \E k \in DOMAIN raw :
            /\ raw[k].t = "nan" /\ k \in DOMAIN cleaned_record
            /\ cleaned_record[k] = [t |-> "float", v |-> 0]
    /\ "Time" \notin DOMAIN cleaned_record
    /\ "Timestamp" \notin DOMAIN cleaned_record


\* ------------------------------------------------------------------ C11
\* C11: normalizing the normalized record again, at a later clock reading,
\* gives a record with the same keys and, for every key but timestamp and
\* upload_time, the same value.
C11_Idempotence ==
    Normalized =>
        LET again == clean_data_record(cleaned_record, now) IN
            /\ DOMAIN again = DOMAIN cleaned_record
            /\ \A k \in DOMAIN again \ {"timestamp", "upload_time"} :
                 again[k] = cleaned_record[k]

\* A normalized record holding a text, a number and a 0.0 that stood for a
\* missing value is normalized again: its two time fields do change.
C11_Witness ==
    /\ Normalized
    /\ \E k \in DOMAIN cleaned_record : cleaned_record[k].t = "str" /\ k # "timestamp"
    /\ \E k \in DOMAIN cleaned_record : cleaned_record[k] = [t |-> "float", v |-> 0]
    /\ LET again == clean_data_record(cleaned_record, now) IN
        /\ again["timestamp"] # cleaned_record["timestamp"]
        /\ again["upload_time"] # cleaned_record["upload_time"]
        /\ DOMAIN again = DOMAIN cleaned_record


\* ------------------------------------------------------------------ C12
\* The set_metadata events of tick t in the trace.
MetadataEvents(t) ==
    SelectSeq(trace, LAMBDA e : e.by = "tick" /\ e.tick = t /\ e.op = "set_metadata")

\* The metadata publish of the last completed tick went through.
LastPublishStored ==
    /\ ticks >= 1
    /\ Len(MetadataEvents(ticks)) = 1
    /\ MetadataEvents(ticks)[1].ok

\* C12: the metadata is one record, written only by the metadata step of a
\* tick, once per tick and before the index advances; the current_index it
\* carries is the offset of the record that tick uploaded and lies in
\* [0, N); between ticks, once the last tick's publish went through, it is
\* the scheduler's current_index - 1.
C12_Metadata ==
    /\ [](/\ Len(metadata) <= 1
          /\ metadata # <<>> =>
               /\ metadata[1].current_index >= 0
               /\ metadata[1].current_index < total_records
          /\ \A t \in 1..(ticks + 1) : Len(MetadataEvents(t)) <= 1
          /\ \A t \in 1..ticks : Len(MetadataEvents(t)) = 1
          /\ (AtTickBoundary /\ LastPublishStored) =>
               metadata[1].current_index = current_index - 1)
    /\ [][metadata' # metadata =>
            /\ pc = "metadata" /\ pc' = "advance" /\ caller = "tick"
            /\ Len(metadata') = 1
            /\ metadata'[1].current_index = upload_index
            /\ metadata'[1].current_index = current_index
            /\ current_index' = current_index
            /\ ticks' = ticks]_vars

\* A looping run between its ticks 3 and 4 on a two-row sheet: the index
\* has wrapped, the metadata carries 0 and the scheduler is at 1.
C12_Witness ==
    /\ AtTickBoundary /\ LastPublishStored
    /\ loop_data /\ total_records = 2 /\ ticks = 3
    /\ metadata[1].current_index = 0
    /\ current_index = 1


\* ------------------------------------------------------------------ C13
\* The entry of snapshot h stored under key.
EntryOf(h, key) == CHOOSE e \in Entries(h) : e.key = key

LacksUploadTime(e) == "upload_time" \notin DOMAIN e.rec

\* The sort key the claim gives an entry: its upload_time, 0 when it has none.
StatedSortKey(e) == IF LacksUploadTime(e) THEN 0 ELSE e.rec["upload_time"].v

\* The step in which a retention pass has read the history and chosen the
\* keys it will delete.
PassChoosesKeys ==
    /\ pc = "cleanup_get"
    /\ pc' \in {"cleanup_delete", "uploaded"}
    /\ pass_outcome' \in {"deleting", "noop"}

\* C13: a retention pass that reads count entries chooses for deletion
\* exactly count - HistoryCap of them when count > HistoryCap and none
\* otherwise; the chosen keys are a prefix of the ascending order by
\* upload_time with a missing upload_time counted as 0 (no kept entry sorts
\* before a chosen one, and no entry with a positive upload_time is chosen
\* while an entry without upload_time is kept); a pass that ends without a
\* failure has deleted exactly the chosen entries.
C13_DeletesOldestPrefix ==
    /\ [][PassChoosesKeys =>
            LET h == history
                d == keys_to_delete'
                chosen == {EntryOf(h, d[i]) : i \in 1..Len(d)}
                kept == Entries(h) \ chosen
            IN  /\ Len(d) = IF Len(h) > HistoryCap THEN Len(h) - HistoryCap ELSE 0
                /\ Cardinality(chosen) = Len(d)
                /\ \A i \in 1..Len(d) : \E e \in Entries(h) : e.key = d[i]
                /\ \A i, j \in 1..Len(d) :
                     i < j => StatedSortKey(EntryOf(h, d[i])) <= StatedSortKey(EntryOf(h, d[j]))
                /\ \A x \in chosen, y \in kept : StatedSortKey(x) <= StatedSortKey(y)
                /\ \A x \in chosen, y \in kept :
                     ~(LacksUploadTime(y) /\ StatedSortKey(x) > 0)
                /\ Len(h) <= HistoryCap => (d = <<>> /\ pc' = "uploaded")]_vars
    /\ []((pc = "uploaded" /\ pass_outcome = "noop") =>
            (Len(history_data) <= HistoryCap /\ history = history_data))
    /\ []((pc = "uploaded" /\ pass_outcome = "trimmed") =>
            /\ Len(history_data) > HistoryCap
            /\ Len(history_data) - Len(history) = Len(history_data) - HistoryCap
            /\ Entries(history) \subseteq Entries(history_data)
            /\ Entries(history_data) \ Entries(history) =
                 {EntryOf(history_data, k) :
                    k \in {keys_to_delete_of(history_data)[i] :
                             i \in 1..Len(keys_to_delete_of(history_data))}})

\* A pass has trimmed a snapshot that held an entry without upload_time
\* next to entries with a positive one: the entry without is gone, the
\* positive ones are all still there.
C13_Witness ==
    /\ pc = "uploaded" /\ pass_outcome = "trimmed"
    /\ \E x \in Entries(history_data) :
        /\ LacksUploadTime(x)
        /\ x \notin Entries(history)
    /\ \E y \in Entries(history_data) : StatedSortKey(y) > 0
    /\ \A y \in Entries(history_data) : StatedSortKey(y) > 0 => y \in Entries(history)


\* ------------------------------------------------------------------ C14
\* A retention pass ends without any of its store calls having raised.
PassEndsClean ==
    /\ pc \in {"cleanup_get", "cleanup_delete"}
    /\ pc' = "uploaded"
    /\ pass_outcome' \in {"noop", "trimmed"}

\* A get or a delete of an earlier retention pass raised.
RetentionFailedBefore ==
    \E i \in 1..Len(trace) : trace[i].op \in {"get", "delete"} /\ ~trace[i].ok

\* C14: the history exceeds HistoryCap after an upload only when the last
\* retention pass raised (no run was interrupted), and whatever excess
\* earlier failed passes left, the first pass that ends without a failure
\* deletes all of it in that one pass: it leaves at most HistoryCap entries,
\* having deleted the snapshot's whole excess.
C14_RetentionRecovery ==
    /\ [][PassEndsClean =>
            /\ Len(history') <= HistoryCap
            /\ Len(history_data') > HistoryCap =>
                 /\ Len(history') = HistoryCap
                 /\ Cardinality(Entries(history_data') \ Entries(history')) =
                      Len(history_data') - HistoryCap]_vars
    /\ []((/\ status # "Stopped"
           /\ pc \notin {"cleanup_get", "cleanup_delete"}
           /\ Len(history) > HistoryCap) =>
            /\ pass_outcome \in {"read_failed", "delete_failed"}
            /\ RetentionFailedBefore)

\* A pass raised and left an excess of one; the next pass read a history two
\* over the cap and has brought it back to the cap in one go.
C14_Witness ==
    /\ pc = "uploaded" /\ pass_outcome = "trimmed"
    /\ RetentionFailedBefore
    /\ Len(history_data) >= HistoryCap + 2
    /\ Len(history) = HistoryCap


\* ------------------------------------------------------------------ C15
\* Event i of the tick events is a publish of the current snapshot that raised.
CurrentPublishFailed(ev, i) == ev[i].op = "set_current" /\ ~ev[i].ok

\* C15: the history grows only by the record that is the current snapshot at
\* that moment, published by the same call just before; when the publish of
\* the current snapshot raises, the history and the snapshot stay as they
\* were, that tick makes no history append and no retention call, its next
\* store operation is the metadata publish, and its advance follows.
C15_HistoryOnlyAfterCurrent ==
    /\ [][ /\ history' # history /\ Len(history') >= Len(history) =>
               /\ pc = "push"
               /\ current = <<cleaned_record>>
               /\ history' = Append(history, [key |-> next_key, rec |-> current[1]])
               /\ trace[Len(trace)].op = "set_current" /\ trace[Len(trace)].ok
               /\ trace[Len(trace)].by = caller
           /\ (pc = "set_current" /\ failures' > failures) =>
               /\ history' = history
               /\ current' = current
               /\ pc' = IF caller = "tick" THEN "metadata" ELSE "single_done"
               /\ current_index' = current_index
         ]_vars
    /\ [](LET ev == TickEvents(trace) IN
            \A i \in 1..Len(ev) : CurrentPublishFailed(ev, i) =>
                /\ \A j \in 1..Len(ev) :
                     ev[j].tick = ev[i].tick => ev[j].op \notin {"push", "get", "delete"}
                /\ i < Len(ev) =>
                     (ev[i + 1].op = "set_metadata" /\ ev[i + 1].tick = ev[i].tick)
                /\ i + 1 < Len(ev) =>
                     (ev[i + 2].op = "advance" /\ ev[i + 2].tick = ev[i].tick)
                /\ ev[i].tick <= ticks =>
                     \E j \in 1..Len(ev) : ev[j].op = "advance" /\ ev[j].tick = ev[i].tick)
    /\ []((InsideTick /\ pc = "metadata") => ENABLED UpdateMetadata)
    /\ []((InsideTick /\ pc = "advance") => ENABLED Advance)

\* The first tick's publish of the current snapshot raised: no snapshot and
\* no new history entry, but the metadata is published and the index is 1.
C15_Witness ==
    /\ AtTickBoundary /\ ticks = 1 /\ current_index = 1
    /\ CurrentPublishFailed(TickEvents(trace), 1)
    /\ current = <<>>
    /\ history = initial_history
    /\ metadata # <<>> /\ metadata[1].current_index = 0


\* ------------------------------------------------------------------ C16
\* C16: the stored metadata always carries status "active", also once the
\* run is Completed or Stopped; metadata is written only while the scheduler
\* is and stays Running, and the step that ends a run writes no metadata and
\* makes no store operation.
C16_StatusAlwaysActive ==
    /\ [](metadata # <<>> => metadata[1].status = "active")
    /\ [][ /\ metadata' # metadata =>
               /\ status = "Running" /\ status' = "Running"
               /\ metadata'[1].status = "active"
           /\ (status' # status /\ status' \in {"Completed", "Stopped", "Crashed"}) =>
               /\ metadata' = metadata
               /\ trace' = trace
         ]_vars

\* A non-looping run over two rows is Completed and the metadata of its last
\* tick still says active.
C16_Witness ==
    /\ status = "Completed" /\ total_records = 2 /\ ticks = 2
    /\ metadata # <<>>
    /\ metadata[1].status = "active"
    /\ metadata[1].current_index = 1


\* ------------------------------------------------------------------ C17
\* C17: on a sheet of N >= 1 rows, looping or not, current_index is always
\* in [0, N]; from the selection of a record to the tick's advance it is in
\* [0, N) and is the offset being uploaded; it changes only by the advance
\* that ends a tick, which adds one, and by the reset to 0 that the looping
\* end-of-data test makes when it finds the index at N.
C17_IndexRange ==
    /\ [](total_records >= 1 =>
            /\ current_index >= 0 /\ current_index <= total_records
            /\ (status = "Running" /\ pc = "select") => current_index < total_records
            /\ InsideTick =>
                 /\ current_index < total_records
                 /\ upload_index = current_index)
    /\ [][(total_records >= 1 /\ current_index' # current_index) =>
            \/ /\ pc = "advance" /\ pc' = "sleep"
               /\ current_index' = current_index + 1
               /\ ticks' = ticks + 1
            \/ /\ pc = "loop_top" /\ pc' = "select"
               /\ loop_data
               /\ current_index = total_records
               /\ current_index' = 0
         ]_vars

\* A looping run over two rows has made two ticks, found the index at 2 and
\* reset it: the third tick is about to select row 0.
C17_Witness ==
    /\ status = "Running" /\ pc = "select"
    /\ loop_data /\ total_records = 2 /\ ticks = 2
    /\ current_index = 0


\* ------------------------------------------------------------------ C18
\* C18: on an empty sheet no tick is made and the store is never written,
\* looping or not. Without looping the run goes from its first end-of-data
\* test straight to Completed. With looping the run does not go round: the
\* end-of-data test resets the index, the selection of row 0 raises, and the
\* run ends as Crashed with the error logged (an operator interrupt apart).
C18_EmptySequence ==
    /\ [](total_records = 0 =>
            /\ ticks = 0 /\ trace = <<>>
            /\ current = <<>> /\ metadata = <<>>
            /\ history = initial_history
            /\ current_index = 0
            /\ pc \in {"idle", "loop_top", "select"}
            /\ status = "Completed" => ~loop_data
            /\ status = "Crashed" => loop_data
            /\ status = "Running" =>
                 /\ (pc = "loop_top" /\ ~loop_data) => ENABLED FinishPass
                 /\ (pc = "loop_top" /\ loop_data) => ENABLED LoopBack
                 /\ pc = "select" => (loop_data /\ ENABLED SelectCrash)
                 /\ ~ENABLED SelectRecord)
    /\ [][(total_records = 0 /\ status = "Running") =>
            \/ status' = "Stopped"
            \/ /\ pc = "loop_top" /\ ~loop_data
               /\ status' = "Completed" /\ last_log' = "finished"
            \/ /\ pc = "loop_top" /\ loop_data
               /\ status' = "Running" /\ pc' = "select"
            \/ /\ pc = "select"
               /\ status' = "Crashed" /\ last_log' = "streaming_error"
         ]_vars

\* A looping run on an empty sheet has ended with the error, no tick made
\* and nothing written.
C18_Witness ==
    /\ total_records = 0 /\ loop_data
    /\ status = "Crashed" /\ last_log = "streaming_error"
    /\ ticks = 0 /\ trace = <<>>
    /\ current = <<>> /\ metadata = <<>> /\ history = initial_history


\* ------------------------------------------------------------------ C19
\* The upload_time values in the shared history are pairwise distinct.
DistinctUploadTimes ==
    \A i, j \in 1..Len(history) :
        i # j => upload_time_of(history[i].rec) # upload_time_of(history[j].rec)

\* C19: with two uploaders on one store, their store calls interleaved in
\* any order and all upload_time values distinct, no step takes the history
\* from HistoryCap or more entries to fewer than HistoryCap, and no step
\* deletes an entry that is among the HistoryCap entries with the largest
\* upload_time in the store at that moment.
C19_NoOverDelete ==
    /\ []DistinctUploadTimes
    /\ [][ /\ Len(history) >= HistoryCap => Len(history') >= HistoryCap
           /\ \A e \in Entries(history) \ Entries(history') :
                e \notin Newest(history, HistoryCap)
         ]_vars

\* The race: both instances read the history before either trimmed it and
\* chose the same key; instance 1 has deleted it and finished its pass,
\* instance 2 is about to delete the key that is already gone, and the
\* history is at the cap.
C19_Witness ==
    /\ peers[1].pc = "metadata"
    /\ peers[2].pc = "cleanup_delete"
    /\ peers[2].keys_to_delete # <<>>
    /\ peers[1].history_data = peers[2].history_data
    /\ Len(peers[1].history_data) > HistoryCap
    /\ \A e \in Entries(history) : e.key # Head(peers[2].keys_to_delete)
    /\ Len(history) = HistoryCap

====
